---- MODULE Spec2Model ----
(***************************************************************************)
(* Workflow execution engine of news-briefing-generator                    *)
(* (workflow/workflow_handler.py, model/task/base.py, model/task/result.py)*)
(*                                                                         *)
(* One call of WorkflowHandler.execute_workflow is modelled step by step.  *)
(* The steps are the points at which the coroutine gives up control: the   *)
(* await of task.execute() and the prompt of get_user_review.  Everything  *)
(* the handler does between two such points is part of one action.         *)
(*                                                                         *)
(* A workflow is a list of task entries.  `tasks' holds the declared names *)
(* in list order; names are unique within a workflow (TaskConfig.name keys *)
(* the results map, cli/main.py:62 rejects duplicates).  The other fields  *)
(* of an entry (task_type, depends_on, human_review) are inputs that the   *)
(* loop reads when it reaches the entry (workflow_handler.py:232), so they *)
(* are drawn there; entries after a failure are only read for their name   *)
(* (workflow_handler.py:317).                                              *)
(***************************************************************************)
EXTENDS Naturals, FiniteSets, Sequences

\* ---------------------------------------------------------------- bounds
\* longest workflow (number of task entries)
MaxTasks == 3
\* most names in one depends_on list
MaxDeps == 2
\* most "re-run" signals honoured for one task
MaxReruns == 2

\* the wall clock is followed for this many half seconds
MaxClock == 4

\* most LLM objects constructed by one handler, its default LLM included
MaxLlmObjects == 3

\* most entries of a workflow definition handed to the `run' command
MaxDeclared == 2

\* most execute_workflow calls that follow the first on one handler
MaxRuns == 1

\* upper bound on the entries of a workflow whose run is followed to its end
MaxFairTasks == 2

\* upper bound on the coroutines of one fan-out
MaxCoroutines == 3

\* upper bound on max_concurrent, the permits of a task's semaphore
MaxPermits == 2

\* ---------------------------------------------------------------- values
\* Python's None, for the Optional fields of TaskResult
None == "None"

\* the name of the task entry at position p of the list
TaskName(p) == <<"task", p>>

\* a name that no entry of the workflow declares
Undeclared == TaskName(0)

\* the literal {} of `result.data or {}`
EmptyMapping == "{}"

\* payloads a task may return in TaskResult.data
DataValues == {None, "payload"}

\* TaskResult.metrics of a task's own result
MetricsValues == {None, "task metrics"}

\* error texts of results that a task's execute() returns with success=False
TaskErrorTexts == {"Task configured to fail"}

\* str(e) of exceptions that escape a task's execute()
ExceptionTexts == {"boom"}

\* keys of TASK_REGISTRY, and one string that is no key of it
RegisteredType == "FeedCollectionTask"
UnknownType == "NoSuchTask"
TASK_REGISTRY == {RegisteredType}
TaskTypes == {RegisteredType, UnknownType}

\* an error text: a fixed part, the task name formatted into it, and the
\* list of unmet dependencies formatted into it
ErrorText(msg, name, deps) == [msg |-> msg, name |-> name, deps |-> deps]

NoError == ErrorText(None, Undeclared, {})

PlainError(text) == ErrorText(text, Undeclared, {})

\* f"{dep} (not executed)"
NotExecuted(dep) == [dep |-> dep, why |-> "not executed", reason |-> NoError]

\* f"{dep} (failed: {results[dep].error})"
FailedBecause(dep, err) == [dep |-> dep, why |-> "failed", reason |-> err]

\* f"Dependencies failed for {task_config.name}: {', '.join(failed_deps)}"
DependenciesFailedError(name, failed_deps) ==
    ErrorText("Dependencies failed for ", name, failed_deps)

\* f"Skipped due to failure of {task_config.name}"
SkippedDueToFailureOf(name) == ErrorText("Skipped due to failure of ", name, {})

ChainBrokenError == PlainError("Skipped due to workflow failure: dependency chain broken")

RejectedError == PlainError("Rejected by human review")

UnknownTaskClassError == PlainError("Unknown task class: NoSuchTask")

\* str(e) of the AttributeError of result.metrics.items() when metrics is None
MetricsAttributeError == PlainError("'NoneType' object has no attribute 'items'")

\* the warning prefix NO_DATA_WARNING followed by a task's message
NoDataWarning == "NO_DATA_WARNING: No articles found"

\* created_at of a result that has not been stamped
Unstamped == <<0, 0>>

\* TaskResult; created_at and warning are set by Stamped and WithWarning
TaskResult(task_name, success, data, error, metrics) ==
    [task_name |-> task_name, success |-> success, data |-> data,
     error |-> error, metrics |-> metrics, created_at |-> Unstamped,
     warning |-> None]

\* created_at=get_utc_now_formatted() of a TaskResult under construction
Stamped(res, formatted) == [res EXCEPT !.created_at = formatted]

\* warning=warning_msg of a TaskResult under construction
WithWarning(res, warning) == [res EXCEPT !.warning = warning]

\* TaskConfig, as _create_task_config builds it
TaskConfig(name, task_type, depends_on, human_review) ==
    [name |-> name, task_type |-> task_type, depends_on |-> depends_on,
     human_review |-> human_review]

NoConfig == TaskConfig(Undeclared, UnknownType, {}, FALSE)

NoResult == TaskResult(Undeclared, FALSE, None, NoError, None)

\* dict[k] = v
Put(d, k, v) == [x \in (DOMAIN d) \cup {k} |-> IF x = k THEN v ELSE d[x]]

EmptyDict == [x \in {} |-> None]

\* ------------------------------------------------------ parameter values
\* A parameter value carries its Python type and its printed form.
ParamValue(type, v) == [type |-> type, v |-> v]

\* None as a parameter value (a YAML null, a missing default)
NoneValue == ParamValue("NoneType", "None")

\* a nested mapping found where a value was asked for
MappingValue == ParamValue("dict", "{...}")

\* str(value), as _get_cli_param returns it
Str(value) == ParamValue("str", value.v)

\* isinstance(value, expected_type); bool is a subclass of int
IsInstance(value, expected_type) ==
    \/ value.type = expected_type
    \/ value.type = "bool" /\ expected_type = "int"

\* the names of ConfigSource
ConfigSource ==
    {"CLI_ARGUMENT", "WORKFLOW", "ENVIRONMENT_VARIABLE", "ENVIRONMENT_SETTINGS",
     "BASE_SETTINGS", "DEFAULT"}

\* Parameter(value, source)
Parameter(value, source) == [value |-> value, source |-> source]

NoParameter == Parameter(NoneValue, "DEFAULT")

\* parameter keys that tasks ask for
ParamKeys == {"max_items", "model"}

\* key.replace("_", "-")
CliArg(key) == IF key = "max_items" THEN "max-items" ELSE key

\* key[0]
ShortArg(key) == "m"

\* f"NBG_{key.upper()}"
EnvVar(key) == IF key = "max_items" THEN "NBG_MAX_ITEMS" ELSE "NBG_MODEL"

\* task_scope of a lookup: the task's name, or None
TaskScope == "feed_collection"
Scopes == {None, TaskScope}

\* A workflow parameter map is a dict in insertion order: a sequence of
\* <<key, value>> pairs with distinct keys.
DictKeys(d) == {d[j][1] : j \in DOMAIN d}

\* d[k], for a key of d
DictGet(d, k) == d[CHOOSE j \in DOMAIN d : d[j][1] = k][2]

\* d[k] = v: in place for a key of d, at the end for a new key
DictSet(d, k, v) ==
    IF k \in DictKeys(d)
    THEN [j \in DOMAIN d |-> IF d[j][1] = k THEN <<k, v>> ELSE d[j]]
    ELSE Append(d, <<k, v>>)

\* A settings mapping (nested dicts) is a function from the paths of its
\* leaves to their values; the workflow parameter map as such a mapping.
AsMapping(d) == [path \in {<<k>> : k \in DictKeys(d)} |-> DictGet(d, path[1])]

EmptySettings == [path \in {} |-> NoneValue]

\* _get_from_dict: the value at a dotted path, the nested mapping when the
\* path stops at one, None when the walk fails
GetFromDict(config_dict, path) ==
    IF path \in DOMAIN config_dict
    THEN config_dict[path]
    ELSE IF \E leaf \in DOMAIN config_dict :
                Len(leaf) > Len(path) /\ SubSeq(leaf, 1, Len(path)) = path
         THEN MappingValue
         ELSE NoneValue

\* a helper that never tries the scoped key
TryGetParamPlainOnly(params, param_key, scope) == GetFromDict(params, <<param_key>>)

\* try_get_param of get_param: the scoped key first if a scope is given
TryGetParam(params, param_key, scope) ==
    IF scope # None /\ GetFromDict(params, <<scope, param_key>>) # NoneValue
    THEN GetFromDict(params, <<scope, param_key>>)
    ELSE GetFromDict(params, <<param_key>>)

VARIABLES
    tasks,          \* the declared task names of the workflow, in list order
    pc,             \* where execute_workflow is
    i,              \* index of the loop over task_configs (1-based)
    task_config,    \* the TaskConfig of the current iteration
    results,        \* results: Dict[str, TaskResult]
    context,        \* context: Dict[str, Any], the data of the tasks completed
    result,         \* result: the TaskResult in the hands of _execute_task
    workflow_data,  \* task.context.workflow_data of the current task instance
    reruns,         \* number of "re-run" signals of the current task
    started,        \* positions whose task was instantiated and executed, in order
    execute_raised, \* str(e) of the exception that escaped execute(), or None
    review_result,  \* the last signal returned by get_user_review, or None
    params,         \* the dict that is task_config.params and task.context.params
    param_sources,  \* task.context.param_sources
    chosen,         \* the option last selected in the review prompt, 0 before any
    typed,          \* the override lines last submitted in a re-run prompt
    typer_ctx,      \* ConfigManager.typer_ctx: the parsed CLI arguments, if any
    environ,        \* os.environ
    env_settings,   \* ConfigManager.env_settings
    base_settings,  \* ConfigManager.base_settings
    asked,          \* the arguments of the last get_param call
    parameter,      \* the Parameter the last get_param call returned
    now,            \* the wall clock read by get_utc_now_formatted
    default_llm,    \* WorkflowHandler.default_llm
    llm_config,     \* task_config.llm_config of the last _get_task_llm call
    llm,            \* what the last _get_task_llm call returned
    llm_warning,    \* what the last _get_task_llm call logged as a warning
    llm_count,      \* number of LLM objects constructed so far
    declared,       \* the entries of the workflow definition the command runs
    cli,            \* where the `run' command is
    exit_code,      \* exit code of the command's process, None while it runs
    workflows,      \* self.workflows: the params dict of each loaded entry
    runs,           \* number of execute_workflow calls that have returned
    fan_out,        \* the task whose execute() fans out, or None
    max_concurrent, \* the max_concurrent parameter of that task
    semaphore,      \* the free permits of asyncio.Semaphore(max_concurrent)
    coroutines,     \* the coroutines handed to track_async_progress, in order
    tracking,       \* where track_async_progress is
    index,          \* index of its loop over the tasks (1-based)
    gathered,       \* its results list
    overtaken       \* a coroutine finished while one before it had not

\* the variables of execute_workflow and _execute_task
engine_vars == <<tasks, pc, i, task_config, results, context, result, workflow_data,
                 reruns, started, execute_raised, review_result>>

\* the parameter state of the current task instance
task_vars == <<params, param_sources, chosen, typed>>

\* the sources that ConfigManager reads
conf_vars == <<typer_ctx, environ, env_settings, base_settings>>

\* the last call of the resolver
call_vars == <<asked, parameter>>

\* the LLM binding of the handler and of the last task instance
llm_vars == <<default_llm, llm_config, llm, llm_warning, llm_count>>

\* the `run' command around the handler
run_vars == <<declared, cli, exit_code>>

\* what the handler keeps between execute_workflow calls
handler_vars == <<workflows, runs>>

\* one fan-out inside a task's execute()
fan_vars == <<fan_out, max_concurrent, semaphore, coroutines, tracking, index,
              gathered, overtaken>>

vars == <<engine_vars, task_vars, conf_vars, call_vars, now, llm_vars, run_vars,
          handler_vars, fan_vars, fan_vars>>

N == Len(tasks)

\* names a depends_on list may hold: declared ones and one undeclared
DepNames == {TaskName(p) : p \in 0..N}

DependsOnLists == {S \in SUBSET DepNames : Cardinality(S) <= MaxDeps}

\* ------------------------------------------------- ConfigManager.get_param
\* a lookup of the CLI arguments that never finds one
GetCliParamNever(key) == NoneValue

\* _get_cli_param: the argument named like the key with hyphens, else the
\* one named by the key's first letter, as a string; None without a context
GetCliParam(key) ==
    IF ~typer_ctx.present
    THEN NoneValue
    ELSE IF CliArg(key) \in DOMAIN typer_ctx.params
         THEN Str(typer_ctx.params[CliArg(key)])
         ELSE IF ShortArg(key) \in DOMAIN typer_ctx.params
              THEN Str(typer_ctx.params[ShortArg(key)])
              ELSE NoneValue

\* a workflow tier that is given the task scope like the settings tiers
WorkflowTierScopeGiven(task_scope) == task_scope

\* the scope that get_param hands to try_get_param for the workflow
\* parameters: none (`try_get_param(workflow_params or {}, key)')
WorkflowTierScope(task_scope) == None

\* get_param: the first tier with a match decides value and source
GetParam(key, workflow_params, task_scope, default) ==
    LET cli_value == GetCliParam(key)
        resolved_workflow_param ==
            TryGetParam(workflow_params, key, WorkflowTierScope(task_scope))
        env_var == EnvVar(key)
        env_value == TryGetParam(env_settings, key, task_scope)
        base_value == TryGetParam(base_settings, key, task_scope)
    IN  IF cli_value # NoneValue
        THEN Parameter(cli_value, "CLI_ARGUMENT")
        ELSE IF resolved_workflow_param # NoneValue
        THEN Parameter(resolved_workflow_param, "WORKFLOW")
        ELSE IF env_var \in DOMAIN environ
        THEN Parameter(environ[env_var], "ENVIRONMENT_VARIABLE")
        ELSE IF env_value # NoneValue
        THEN Parameter(env_value, "ENVIRONMENT_SETTINGS")
        ELSE IF base_value # NoneValue
        THEN Parameter(base_value, "BASE_SETTINGS")
        ELSE Parameter(default, "DEFAULT")

\* the arguments of a get_param call
Call(key, workflow_params, task_scope, default) ==
    [key |-> key, workflow_params |-> workflow_params, task_scope |-> task_scope,
     default |-> default]

NoCall == Call(None, EmptySettings, None, NoneValue)

\* ------------------------------------------------------ Task, parameters
\* _track_param_resolution: param_sources[name] = {"value", "source"}
TrackParamResolutionAlone(sources, name, value, source) ==
    Put(EmptyDict, name, Parameter(value, source))

TrackParamResolution(sources, name, value, source) ==
    Put(sources, name, Parameter(value, source))

\* what _update_task_parameters leaves behind: the exception it raised, if
\* any, and the two tables as they are then
Updated(raised, p, sources) == [raised |-> raised, params |-> p, param_sources |-> sources]

\* _update_task_parameters: every entry of new_params is validated against
\* param_sources and then written; the loop stops at the first that fails
RECURSIVE UpdateTaskParameters(_, _, _)
UpdateTaskParameters(new_params, p, sources) ==
    IF new_params = <<>>
    THEN Updated(None, p, sources)
    ELSE LET name == Head(new_params)[1]
             value == Head(new_params)[2]
         IN  IF name \notin DOMAIN sources
             THEN Updated("ValueError", p, sources)
             ELSE IF ~IsInstance(value, sources[name].value.type)
             THEN Updated("TypeError", p, sources)
             ELSE UpdateTaskParameters(
                      Tail(new_params),
                      DictSet(p, name, value),
                      TrackParamResolution(sources, name, value, "WORKFLOW"))

\* texts a reviewer may type after the `=' of an override line
OverrideTexts == {"7", "yes"}

\* a line of the re-run prompt: `key=text', or one that does not split in two
OverrideLine(key, text) == [wellformed |-> TRUE, key |-> key, text |-> text]
MalformedLine == [wellformed |-> FALSE, key |-> "", text |-> ""]

\* the ValueError of _safe_convert_value, in place of a value
ConversionError == ParamValue("raise", "ValueError")

\* _safe_convert_value(value, expected_type)
SafeConvertValue(text, expected_type) ==
    CASE expected_type = "bool" ->
            ParamValue("bool", IF text \in {"true", "1", "yes"} THEN "True" ELSE "False")
      [] expected_type = "int" ->
            IF text = "7" THEN ParamValue("int", "7") ELSE ConversionError
      [] expected_type = "float" ->
            IF text = "7" THEN ParamValue("float", "7.0") ELSE ConversionError
      [] expected_type = "list" ->
            ParamValue("list", IF text = "7" THEN "['7']" ELSE "['yes']")
      [] expected_type = "str" -> ParamValue("str", text)
      [] OTHER -> ConversionError

\* _get_updated_parameters: a copy of the workflow parameters with the
\* accepted override lines written into it, in the order they were typed
RECURSIVE GetUpdatedParameters(_, _, _)
GetUpdatedParameters(updated_params, sources, lines) ==
    IF lines = <<>>
    THEN updated_params
    ELSE LET line == Head(lines)
             value == SafeConvertValue(line.text, sources[line.key].value.type)
         IN  GetUpdatedParameters(
                 IF /\ line.wellformed
                    /\ line.key \in DOMAIN sources
                    /\ value # ConversionError
                 THEN DictSet(updated_params, line.key, value)
                 ELSE updated_params,
                 sources, Tail(lines))

\* ------------------------------------------------------------ the clock
\* The clock counts half seconds; a day of the model has two seconds.
\* a format that puts the time of day before the date
UtcNowFormattedTimeFirst(t) == <<(t % 4) \div 2, t \div 4>>

\* get_utc_now_formatted: strftime("%Y-%m-%d %H:%M:%S%z"): the date, then
\* the time of day in whole seconds
UtcNowFormatted(t) == <<t \div 4, (t % 4) \div 2>>

\* a <= b for two strings of that format: compared from the left
StrLessEq(a, b) == a[1] < b[1] \/ (a[1] = b[1] /\ a[2] <= b[2])

\* ----------------------------------------------------------- LLM binding
\* An LLM object: its identity, its class, base_url and the remaining
\* keyword arguments it was built with.
LlmObject(id, class, base_url, config) ==
    [id |-> id, class |-> class, base_url |-> base_url, config |-> config]

NoKwargs == [k \in {} |-> None]

NoLlm == LlmObject(0, None, None, NoKwargs)

\* task_config.llm_config: None, or the mapping under the entry's `llm' key
NoLlmConfig == [present |-> FALSE, config |-> NoKwargs]
LlmConfig(config) == [present |-> TRUE, config |-> config]

\* llm_kwargs after pop(key)
Pop(kwargs, key) == [k \in DOMAIN kwargs \ {key} |-> kwargs[k]]

\* dict.get(key)
Get(kwargs, key) == IF key \in DOMAIN kwargs THEN kwargs[key] ELSE None

\* the warning of the fallback branch
UnknownLlmTypeWarning(llm_type, name) ==
    [text |-> "Unknown LLM type {llm_type} for task {name}, using default LLM",
     llm_type |-> llm_type, name |-> name]

NoWarning == [text |-> None, llm_type |-> None, name |-> None]

\* what a _get_task_llm call does: the object returned, the warning logged,
\* the exception raised
LlmOutcome(object, warning, raised) ==
    [llm |-> object, warning |-> warning, raised |-> raised]

\* a binding that builds an equal copy of the default LLM instead of
\* handing out the default itself
GetTaskLlmRebuilt(name, config, default, api_key, id) ==
    LlmOutcome([default EXCEPT !.id = id],
               IF ~config.present \/ DOMAIN config.config = {}
               THEN NoWarning
               ELSE UnknownLlmTypeWarning(Get(config.config, "type"), name),
               None)

\* _get_task_llm(task_config) of a handler with this default LLM; id is the
\* identity of the object it constructs, if it constructs one
GetTaskLlm(name, config, default, api_key, id) ==
    IF ~config.present \/ DOMAIN config.config = {}
    THEN LlmOutcome(default, NoWarning, None)
    ELSE LET llm_type == Get(config.config, "type")
             llm_kwargs == Pop(config.config, "type")
         IN  IF llm_type = "ollama"
             THEN LlmOutcome(
                      LlmObject(id, "OllamaModel",
                                IF default.class = "OllamaModel"
                                      /\ "base_url" \notin DOMAIN llm_kwargs
                                THEN default.base_url
                                ELSE Get(llm_kwargs, "base_url"),
                                Pop(llm_kwargs, "base_url")),
                      NoWarning, None)
             ELSE IF llm_type = "openai"
             THEN IF api_key = ""
                  THEN LlmOutcome(NoLlm, NoWarning, "ValueError")
                  ELSE LlmOutcome(
                           LlmObject(id, "OpenAIModel", None,
                                     [k \in DOMAIN llm_kwargs \cup {"api_key"} |->
                                         IF k = "api_key" THEN api_key ELSE llm_kwargs[k]]),
                           NoWarning, None)
             ELSE LlmOutcome(default, UnknownLlmTypeWarning(llm_type, name), None)

\* ------------------------------------------------- dicts that are shared
\* A loaded entry: whether it has a `params' key, and the dict under it.
LoadedEntry(has_params, entry_params) ==
    [has_params |-> has_params, params |-> entry_params]

\* task_dict.get("params", {}): the dict of the loaded entry itself, or a new
\* empty one
TaskDictParams(entry) == IF entry.has_params THEN entry.params ELSE <<>>

\* self.workflows after context.params of the task of entry idx was written:
\* context.params is task_config.params, which is the entry's own dict if
\* the entry has one
LoadedAfter(loaded, idx, new_params) ==
    IF idx \in DOMAIN loaded /\ loaded[idx].has_params
    THEN [loaded EXCEPT ![idx].params = new_params]
    ELSE loaded

\* a task that is handed the engine's context dict itself
AfterTaskWritesShared(workflow_context, written) == written

\* workflow_context after the task wrote to its workflow_data, which is
\* workflow_context.copy(): another dict
AfterTaskWrites(workflow_context, written) == workflow_context

\* ------------------------------------------------ execute_workflow, helpers
\* the dependency check without its `dep not in results' branch
FailedDepsFailedOnly(depends_on, res) ==
    {FailedBecause(dep, res[dep].error) :
        dep \in {d \in depends_on \cap DOMAIN res : ~res[d].success}}

\* failed_deps of the dependency check: one entry for each name of depends_on
\* that is no key of results or whose result failed
FailedDeps(depends_on, res) ==
    {NotExecuted(dep) : dep \in depends_on \ DOMAIN res}
    \cup {FailedBecause(dep, res[dep].error) :
             dep \in {d \in depends_on \cap DOMAIN res : ~res[d].success}}

\* the dependency failure result with an error that omits failed_deps
DependencyFailureResultWithoutList(name, failed_deps) ==
    Stamped(TaskResult(name, FALSE, "failed_dependencies",
                       DependenciesFailedError(name, {}), "dependency_failures"),
            UtcNowFormatted(now))

\* the TaskResult recorded for a task whose dependencies are unmet
DependencyFailureResult(name, failed_deps) ==
    Stamped(TaskResult(name, FALSE, "failed_dependencies",
                       DependenciesFailedError(name, failed_deps),
                       "dependency_failures"),
            UtcNowFormatted(now))

\* the TaskResult that _mark_remaining_tasks_as_failed builds for one task
SkippedResult(name, error_message) ==
    Stamped(TaskResult(name, FALSE, None, error_message,
                       "skipped_due_to_workflow_failure"),
            UtcNowFormatted(now))

\* _mark_remaining_tasks_as_failed that stops after the first remaining config
MarkNextTaskAsFailed(remaining_configs, res, error_message) ==
    IF remaining_configs = <<>>
    THEN res
    ELSE Put(res, Head(remaining_configs),
             SkippedResult(Head(remaining_configs), error_message))

\* _mark_remaining_tasks_as_failed: one failed entry for every remaining config
RECURSIVE MarkRemainingTasksAsFailed(_, _, _)
MarkRemainingTasksAsFailed(remaining_configs, res, error_message) ==
    IF remaining_configs = <<>>
    THEN res
    ELSE MarkRemainingTasksAsFailed(
             Tail(remaining_configs),
             Put(res, Head(remaining_configs),
                 SkippedResult(Head(remaining_configs), error_message)),
             error_message)

\* task_configs[i:], the slice taken one entry too early
RemainingFromCurrent(idx) == SubSeq(tasks, idx, Len(tasks))

\* task_configs[i + 1 :], by name
Remaining(idx) == SubSeq(tasks, idx + 1, N)

\* a loop that steps over an entry
NextIndexSkipping(idx) == idx + 2

\* the step of `for i, task_config in enumerate(task_configs)'
NextIndex(idx) == idx + 1

\* _get_task_instance without its registry check
IsRegisteredAlways(task_type) == TRUE

\* task_config.task_type in TASK_REGISTRY
IsRegistered(task_type) == task_type \in TASK_REGISTRY

\* execute_workflow without its stop on failure
HaltsNever(res) == FALSE

\* `if not result.success' of execute_workflow: the run stops
Halts(res) == ~res.success

\* data that is false in a condition: None, an empty list
EmptyList == "[]"
Falsy == {None, EmptyList, EmptyMapping}

\* result.data or {}
DataOrEmpty(data) == IF data \in Falsy THEN EmptyMapping ELSE data

\* an except branch that reports a fixed text instead of str(e)
ExceptionResultFixedText(name, error) ==
    Stamped(TaskResult(name, FALSE, None, PlainError("Task execution failed"), None),
            UtcNowFormatted(now))

\* the except branch of _execute_task: the exception becomes a failed result
ExceptionResult(name, error) ==
    Stamped(TaskResult(name, FALSE, None, error, None), UtcNowFormatted(now))

\* a review loop that does not look at result.success
NeedsReviewIgnoringSuccess(cfg, res) == cfg.human_review

\* an `if' in place of the `while': a re-run's result is not reviewed
NeedsReviewOnce(cfg, res) == cfg.human_review /\ res.success /\ reruns = 0

\* the condition of the review loop of _execute_task
NeedsReview(cfg, res) == cfg.human_review /\ res.success

\* a rejection that sets the error and leaves success as it was
RejectedResultKeepingSuccess(res) == [res EXCEPT !.error = RejectedError]

\* review_result == "rejected": the result is edited in place
RejectedResult(res) == [res EXCEPT !.success = FALSE, !.error = RejectedError]

\* a prompt that takes every answer for option 2 and signals "re-run"
GetUserReviewAlwaysRerun(choice, update_raises) == "re-run"

\* Task.get_user_review: the signal for a choice of the reviewer; choice 2
\* signals "re-run" unless updating the parameters raised ValueError/TypeError
GetUserReview(choice, update_raises) ==
    CASE choice = 1 -> "accepted"
      [] choice = 2 -> IF update_raises THEN "rejected" ELSE "re-run"
      [] choice = 3 -> "rejected"

\* _execute_task returns res to execute_workflow, which records it and then
\* either stops and marks the remaining tasks, or hands the data on
Record(cfg, res) ==
    LET recorded == Put(results, cfg.name, res) IN
    /\ result' = res
    /\ IF Halts(res)
       THEN /\ results' = MarkRemainingTasksAsFailed(
                              Remaining(i), recorded, SkippedDueToFailureOf(cfg.name))
            /\ pc' = "returned"
            /\ UNCHANGED <<context, i>>
       ELSE /\ results' = recorded
            /\ context' = Put(context, cfg.name, DataOrEmpty(res.data))
            /\ i' = NextIndex(i)
            /\ pc' = IF NextIndex(i) > N THEN "returned" ELSE "loop"

\* ------------------------------------------------------------------ Init
\* typer_ctx is None
NoTyperCtx == [present |-> FALSE, params |-> [arg \in {} |-> NoneValue]]

\* typer_ctx.params holds these arguments
TyperCtx(args) == [present |-> TRUE, params |-> args]

EmptyEnviron == [name \in {} |-> NoneValue]

\* the handler before execute_workflow
EngineIdle ==
    /\ pc = "idle"
    /\ runs = 0
    /\ i = 1
    /\ task_config = NoConfig
    /\ results = EmptyDict
    /\ context = EmptyDict
    /\ result = NoResult
    /\ workflow_data = EmptyDict
    /\ reruns = 0
    /\ started = <<>>
    /\ execute_raised = None
    /\ review_result = None
    /\ params = <<>>
    /\ param_sources = EmptyDict
    /\ chosen = 0
    /\ typed = <<>>
    /\ asked = NoCall
    /\ parameter = NoParameter
    /\ now = 0

\* a handler whose workflow has up to n entries, before execute_workflow
EngineInit(n) ==
    /\ tasks \in {[p \in 1..m |-> TaskName(p)] : m \in 0..n}
    /\ EngineIdle

\* a ConfigManager without CLI context, environment variables and settings
NoSettings ==
    /\ typer_ctx = NoTyperCtx
    /\ environ = EmptyEnviron
    /\ env_settings = EmptySettings
    /\ base_settings = EmptySettings

\* a handler that has bound no task LLM yet, with some default LLM
NoLlmCall ==
    /\ llm_config = <<>>
    /\ llm = NoLlm
    /\ llm_warning = NoWarning
    /\ llm_count = 1

DefaultOllama == LlmObject(1, "OllamaModel", "http://default:11434",
                           [k \in {"model"} |-> "default-model"])

\* the handler is used without the `run' command
NoCommand ==
    /\ declared = <<>>
    /\ cli = None
    /\ exit_code = None

\* a handler whose entries' params are given when a task starts
NoParamsLoaded == workflows = <<>>

\* no task is fanning out
NoFanOut ==
    /\ fan_out = None
    /\ max_concurrent = 0
    /\ semaphore = 0
    /\ coroutines = <<>>
    /\ tracking = None
    /\ index = 0
    /\ gathered = <<>>
    /\ overtaken = FALSE

Init ==
    /\ EngineInit(MaxTasks)
    /\ NoSettings
    /\ NoLlmCall /\ default_llm = DefaultOllama
    /\ NoCommand
    /\ NoParamsLoaded
    /\ NoFanOut

\* --------------------------------------------------------------- actions
\* execute_workflow(workflow_name) with a name that is no key of self.workflows
UnknownWorkflow ==
    /\ pc = "idle"
    /\ pc' = "raised"
    /\ UNCHANGED <<tasks, i, task_config, results, context, result,
                   workflow_data, reruns, started, execute_raised, review_result>>
    /\ UNCHANGED <<task_vars, conf_vars, handler_vars, fan_vars, llm_vars, run_vars, call_vars, now>>

\* execute_workflow(workflow_name) with a known name: up to the loop
ExecuteWorkflow ==
    /\ pc = "idle"
    /\ pc' = IF N = 0 THEN "returned" ELSE "loop"
    /\ UNCHANGED <<tasks, i, task_config, results, context, result,
                   workflow_data, reruns, started, execute_raised, review_result>>
    /\ UNCHANGED <<task_vars, conf_vars, handler_vars, fan_vars, llm_vars, run_vars, call_vars, now>>

\* one iteration whose dependency check fails
DependenciesFailed(cfg) ==
    /\ pc = "loop"
    /\ LET failed_deps == FailedDeps(cfg.depends_on, results) IN
        /\ failed_deps # {}
        /\ results' = MarkRemainingTasksAsFailed(
                          Remaining(i),
                          Put(results, cfg.name,
                              DependencyFailureResult(cfg.name, failed_deps)),
                          ChainBrokenError)
    /\ task_config' = cfg
    /\ pc' = "returned"
    /\ UNCHANGED <<tasks, i, context, result, workflow_data, reruns, started,
                   execute_raised, review_result>>
    /\ UNCHANGED <<task_vars, conf_vars, handler_vars, fan_vars, llm_vars, run_vars, call_vars, now>>

\* one iteration whose dependencies hold and whose task_type is unknown:
\* _get_task_instance raises inside the try of _execute_task
InstantiationFails(cfg) ==
    /\ pc = "loop"
    /\ FailedDeps(cfg.depends_on, results) = {}
    /\ ~IsRegistered(cfg.task_type)
    /\ task_config' = cfg
    /\ Record(cfg, ExceptionResult(cfg.name, UnknownTaskClassError))
    /\ UNCHANGED <<tasks, workflow_data, reruns, started, execute_raised,
                   review_result>>
    /\ UNCHANGED <<task_vars, conf_vars, handler_vars, fan_vars, llm_vars, run_vars, call_vars, now>>

\* one iteration whose dependencies hold: the task is instantiated with the
\* entry's params and a fresh param_sources, gets a copy of the context and
\* its execute() is invoked
StartTask(cfg, task_params) ==
    /\ pc = "loop"
    /\ FailedDeps(cfg.depends_on, results) = {}
    /\ IsRegistered(cfg.task_type)
    /\ task_config' = cfg
    /\ workflow_data' = context
    /\ started' = Append(started, i)
    /\ reruns' = 0
    /\ params' = task_params
    /\ param_sources' = EmptyDict
    /\ chosen' = 0
    /\ typed' = <<>>
    /\ pc' = "execute"
    /\ UNCHANGED <<tasks, i, results, context, result, execute_raised,
                   review_result>>
    /\ UNCHANGED <<conf_vars, handler_vars, fan_vars, llm_vars, run_vars, call_vars, now>>

\* inside execute(): self.get_parameter(name, default)
GetParameter(name, default) ==
    /\ pc = "execute"
    /\ asked' = Call(name, AsMapping(params), TaskScope, default)
    /\ parameter' = GetParam(name, AsMapping(params), TaskScope, default)
    /\ param_sources' = TrackParamResolution(param_sources, name,
                                             parameter'.value, parameter'.source)
    /\ UNCHANGED <<engine_vars, params, chosen, typed, conf_vars, handler_vars, fan_vars, llm_vars, run_vars, now>>

\* await task.execute() returns a TaskResult: to the review loop or back to
\* execute_workflow
ExecuteReturns(success, data, error, metrics, warning) ==
    /\ pc = "execute"
    /\ LET res == Stamped(
                      WithWarning(
                          TaskResult(task_config.name, success, data, error, metrics),
                          warning),
                      UtcNowFormatted(now)) IN
        IF NeedsReview(task_config, res)
        THEN /\ result' = res
             /\ pc' = "review"
             /\ UNCHANGED <<results, context, i>>
        ELSE Record(task_config, res)
    /\ UNCHANGED <<tasks, task_config, workflow_data, reruns, started,
                   execute_raised, review_result>>
    /\ UNCHANGED <<task_vars, conf_vars, handler_vars, fan_vars, llm_vars, run_vars, call_vars, now>>

\* await task.execute() raises
ExecuteRaises(text) ==
    /\ pc = "execute"
    /\ execute_raised' = text
    /\ Record(task_config, ExceptionResult(task_config.name, PlainError(text)))
    /\ UNCHANGED <<tasks, task_config, workflow_data, reruns, started,
                   review_result>>
    /\ UNCHANGED <<task_vars, conf_vars, handler_vars, fan_vars, llm_vars, run_vars, call_vars, now>>

\* get_user_review raises before it prompts: result.metrics is None
ReviewRaises ==
    /\ pc = "review"
    /\ result.metrics = None
    /\ Record(task_config, ExceptionResult(task_config.name, MetricsAttributeError))
    /\ UNCHANGED <<tasks, task_config, workflow_data, reruns, started,
                   execute_raised, review_result>>
    /\ UNCHANGED <<task_vars, conf_vars, handler_vars, fan_vars, llm_vars, run_vars, call_vars, now>>

\* get_user_review prompts, the reviewer selects an option (and, for option
\* 2, types the override lines), and _execute_task acts on the signal
Review(choice, lines) ==
    /\ pc = "review"
    /\ result.metrics # None
    /\ chosen' = choice
    /\ typed' = IF choice = 2 THEN lines ELSE <<>>
    /\ LET outcome == UpdateTaskParameters(
                          GetUpdatedParameters(params, param_sources, lines),
                          params, param_sources) IN
        /\ review_result' = GetUserReview(choice, outcome.raised # None)
        /\ IF choice = 2
           THEN params' = outcome.params /\ param_sources' = outcome.param_sources
           ELSE UNCHANGED <<params, param_sources>>
    /\ CASE review_result' = "rejected" ->
                /\ Record(task_config, RejectedResult(result))
                /\ UNCHANGED reruns
         [] review_result' = "re-run" ->
                /\ reruns < MaxReruns
                /\ reruns' = reruns + 1
                /\ pc' = "execute"
                /\ UNCHANGED <<results, context, i, result>>
         [] OTHER ->
                /\ Record(task_config, result)
                /\ UNCHANGED reruns
    /\ workflows' = IF choice = 2 THEN LoadedAfter(workflows, i, params') ELSE workflows
    /\ UNCHANGED <<tasks, task_config, workflow_data, started, execute_raised>>
    /\ UNCHANGED <<conf_vars, runs, fan_vars, llm_vars, run_vars, call_vars, now>>

\* inside execute(): the task adds a top-level key to its workflow_data or
\* removes one
WriteWorkflowData(written) ==
    /\ pc = "execute"
    /\ written # workflow_data
    /\ workflow_data' = written
    /\ context' = AfterTaskWrites(context, written)
    /\ UNCHANGED <<tasks, pc, i, task_config, results, result, reruns, started,
                   execute_raised, review_result>>
    /\ UNCHANGED <<task_vars, conf_vars, handler_vars, fan_vars, llm_vars, run_vars, call_vars, now>>

\* a further execute_workflow(workflow_name) on the same handler: context and
\* results are new dicts, the task instances of the earlier call are gone
ExecuteWorkflowAgain ==
    /\ pc = "returned"
    /\ runs < MaxRuns
    /\ runs' = runs + 1
    /\ pc' = IF N = 0 THEN "returned" ELSE "loop"
    /\ i' = 1
    /\ task_config' = NoConfig
    /\ results' = EmptyDict
    /\ context' = EmptyDict
    /\ result' = NoResult
    /\ workflow_data' = EmptyDict
    /\ reruns' = 0
    /\ started' = <<>>
    /\ execute_raised' = None
    /\ review_result' = None
    /\ params' = <<>>
    /\ param_sources' = EmptyDict
    /\ chosen' = 0
    /\ typed' = <<>>
    /\ UNCHANGED <<tasks, workflows, fan_vars, conf_vars, llm_vars, run_vars, call_vars, now>>

\* the TaskConfig of the entry at position i, for every value of its fields
Configs ==
    IF i \in DOMAIN tasks
    THEN {TaskConfig(tasks[i], tt, deps, hr) :
             tt \in TaskTypes, deps \in DependsOnLists, hr \in BOOLEAN}
    ELSE {}

\* an entry without params, and one with a parameter its task never asks for
UnreadParams == {<<>>, << <<"max_items", ParamValue("int", "20")>> >>}

\* a result of execute() as the registered tasks build it: an error exactly
\* when it failed, no warning
PlainResults ==
    {[success |-> success, data |-> data,
      error |-> IF success THEN NoError ELSE PlainError(text),
      metrics |-> metrics, warning |-> None] :
        success \in BOOLEAN, data \in DataValues, text \in TaskErrorTexts,
        metrics \in MetricsValues}

Next ==
    \/ UnknownWorkflow
    \/ ExecuteWorkflow
    \/ \E cfg \in Configs : DependenciesFailed(cfg)
    \/ \E cfg \in Configs : InstantiationFails(cfg)
    \/ \E cfg \in Configs, task_params \in UnreadParams : StartTask(cfg, task_params)
    \/ \E r \in PlainResults :
          ExecuteReturns(r.success, r.data, r.error, r.metrics, r.warning)
    \/ \E text \in ExceptionTexts : ExecuteRaises(text)
    \/ ReviewRaises
    \/ \E choice \in 1..3 : Review(choice, <<>>)

Spec == Init /\ [][Next]_vars

\* The run goes on: the event loop resumes execute_workflow, every execute()
\* returns or raises, and the reviewer answers every prompt. The reviewer
\* asks for at most MaxReruns re-runs of a task.
FairInit ==
    /\ EngineInit(MaxFairTasks)
    /\ NoSettings
    /\ NoLlmCall /\ default_llm = DefaultOllama
    /\ NoCommand
    /\ NoParamsLoaded
    /\ NoFanOut

FairSpec == FairInit /\ [][Next]_vars /\ WF_vars(Next)

\* ------------------------------------------- one task under human review
\* The parameter handling of a task: a workflow of one entry with
\* human_review set, whose task resolves parameters while it executes and
\* whose reviewer may type override lines.

\* values of workflow parameters and defaults
ParamValues == {ParamValue("int", "20"), ParamValue("str", "llama"), NoneValue}

\* the workflow parameter maps of an entry: up to one value per key, in
\* either order
ParamMaps ==
    {<<>>}
    \cup {<< <<k, v>> >> : k \in ParamKeys, v \in ParamValues}
    \cup {<< <<kk[1], v1>>, <<kk[2], v2>> >> :
             kk \in {x \in ParamKeys \X ParamKeys : x[1] # x[2]},
             v1 \in ParamValues, v2 \in {ParamValue("int", "20"), NoneValue}}

\* what a reviewer may submit in a re-run prompt: up to two lines
Lines ==
    {MalformedLine} \cup {OverrideLine(k, t) : k \in ParamKeys, t \in OverrideTexts}

OverrideLines ==
    {<<>>} \cup {<<l>> : l \in Lines}
    \cup {<<OverrideLine("max_items", "7"), l>> : l \in Lines}

\* the entry: a registered task type, no dependencies, human_review: true
ReviewConfigs ==
    {cfg \in Configs :
        cfg.task_type = RegisteredType /\ cfg.depends_on = {} /\ cfg.human_review}

\* results of execute() with metrics, as the registered tasks build them
ReviewedResults == {r \in PlainResults : r.metrics # None /\ r.data # None}

ReviewInit ==
    /\ EngineInit(1)
    /\ N = 1
    /\ typer_ctx \in {NoTyperCtx,
                      TyperCtx([arg \in {"max-items"} |-> ParamValue("str", "cli_value")])}
    /\ environ = EmptyEnviron
    /\ env_settings \in {EmptySettings,
                         [path \in {<<"max_items">>} |-> ParamValue("int", "10")]}
    /\ base_settings \in {EmptySettings,
                          [path \in {<<"model">>} |-> ParamValue("str", "mistral")]}
    /\ NoLlmCall /\ default_llm = DefaultOllama
    /\ NoCommand
    /\ NoParamsLoaded
    /\ NoFanOut

ReviewNext ==
    \/ ExecuteWorkflow
    \/ \E cfg \in ReviewConfigs, task_params \in ParamMaps : StartTask(cfg, task_params)
    \/ \E name \in ParamKeys, default \in {NoneValue, ParamValue("int", "5")} :
          GetParameter(name, default)
    \/ \E r \in ReviewedResults :
          ExecuteReturns(r.success, r.data, r.error, r.metrics, r.warning)
    \/ \E choice \in 1..3, lines \in OverrideLines : Review(choice, lines)

ReviewSpec == ReviewInit /\ [][ReviewNext]_vars

\* ------------------------------------------- get_param on its own
\* the arguments a typer context may hold for the keys: the long form of
\* max_items (also passed without a value) and a one-letter argument
CliParams ==
    {[arg \in {} |-> NoneValue],
     [arg \in {"max-items"} |-> ParamValue("str", "cli_value")],
     [arg \in {"max-items"} |-> NoneValue],
     [arg \in {"m"} |-> ParamValue("int", "3")],
     [arg \in {"max-items", "m"} |->
         IF arg = "m" THEN ParamValue("int", "3") ELSE ParamValue("str", "cli_value")]}

\* os.environ: NBG_ variables are strings, possibly empty
Environs ==
    {EmptyEnviron,
     [name \in {"NBG_MAX_ITEMS"} |-> ParamValue("str", "env_var_value")],
     [name \in {"NBG_MAX_ITEMS"} |-> ParamValue("str", "")]}

\* a mapping with max_items under the plain key, under the task's name, under
\* both, or with a null under the plain key
Mappings(plain, scoped) ==
    {EmptySettings,
     [path \in {<<"max_items">>} |-> plain],
     [path \in {<<"max_items">>} |-> NoneValue],
     [path \in {<<TaskScope, "max_items">>} |-> scoped],
     [path \in {<<"max_items">>, <<TaskScope, "max_items">>} |->
         IF Len(path) = 1 THEN plain ELSE scoped],
     [path \in {<<"max_items">>, <<TaskScope, "max_items">>} |->
         IF Len(path) = 1 THEN NoneValue ELSE scoped]}

WorkflowParamMappings ==
    Mappings(ParamValue("str", "workflow_value"), ParamValue("str", "workflow_scoped_value"))

EnvSettings ==
    Mappings(ParamValue("str", "env_value"), ParamValue("str", "env_scoped_value"))

BaseSettings ==
    Mappings(ParamValue("str", "base_value"), ParamValue("str", "base_scoped_value"))

Defaults == {NoneValue, ParamValue("str", "default_value")}

\* a ConfigManager after construction: any CLI context, environment and
\* settings files
ResolveInit ==
    /\ EngineInit(0)
    /\ typer_ctx \in {NoTyperCtx} \cup {TyperCtx(args) : args \in CliParams}
    /\ environ \in Environs
    /\ env_settings \in EnvSettings
    /\ base_settings \in BaseSettings
    /\ NoLlmCall /\ default_llm = DefaultOllama
    /\ NoCommand
    /\ NoParamsLoaded
    /\ NoFanOut

\* config_manager.get_param(key, workflow_params, task_scope, default)
GetParamCall(key, workflow_params, task_scope, default) ==
    /\ asked' = Call(key, workflow_params, task_scope, default)
    /\ parameter' = GetParam(key, workflow_params, task_scope, default)
    /\ UNCHANGED <<engine_vars, task_vars, conf_vars, handler_vars, fan_vars, llm_vars, run_vars, now>>

ResolveNext ==
    \E key \in ParamKeys, workflow_params \in WorkflowParamMappings,
       task_scope \in Scopes, default \in Defaults :
        GetParamCall(key, workflow_params, task_scope, default)

ResolveSpec == ResolveInit /\ [][ResolveNext]_vars

\* ------------------------------------------- the run with a wall clock
\* time passes: half a second on the clock that get_utc_now_formatted reads
Tick ==
    /\ now < MaxClock
    /\ now' = now + 1
    /\ UNCHANGED <<engine_vars, task_vars, conf_vars, handler_vars, fan_vars, llm_vars, run_vars, call_vars>>

\* results with data and metrics, successful or failed
TimedResults == {r \in PlainResults : r.data # None /\ r.metrics # None}

TimedNext ==
    \/ Tick
    \/ ExecuteWorkflow
    \/ \E cfg \in Configs : DependenciesFailed(cfg)
    \/ \E cfg \in Configs : StartTask(cfg, <<>>)
    \/ \E r \in TimedResults :
          ExecuteReturns(r.success, r.data, r.error, r.metrics, r.warning)
    \/ \E choice \in 1..3 : Review(choice, <<>>)

TimedSpec == Init /\ [][TimedNext]_vars

\* ------------------------------------------- _get_task_llm on its own
\* get_openai_api_key(conf): NBG_OPENAI_API_KEY, else openai.api_key of the
\* settings, else ""
GetOpenaiApiKey ==
    IF "NBG_OPENAI_API_KEY" \in DOMAIN environ /\ environ["NBG_OPENAI_API_KEY"].v # ""
    THEN environ["NBG_OPENAI_API_KEY"].v
    ELSE IF GetFromDict(env_settings, <<"openai", "api_key">>) # NoneValue
         THEN GetFromDict(env_settings, <<"openai", "api_key">>).v
         ELSE IF GetFromDict(base_settings, <<"openai", "api_key">>) # NoneValue
              THEN GetFromDict(base_settings, <<"openai", "api_key">>).v
              ELSE ""

\* llm mappings of workflow entries
LlmKwargs ==
    {[k \in {"type", "model"} |-> IF k = "type" THEN "ollama" ELSE "llama3"],
     [k \in {"type", "model", "base_url"} |->
         IF k = "type" THEN "ollama"
         ELSE IF k = "model" THEN "llama3" ELSE "http://other:11434"],
     [k \in {"type", "model"} |-> IF k = "type" THEN "openai" ELSE "gpt-4.1"],
     [k \in {"type"} |-> "unknown_llm_type"],
     [k \in {"model"} |-> "llama3"],
     NoKwargs}

LlmConfigs == {NoLlmConfig} \cup {LlmConfig(config) : config \in LlmKwargs}

DefaultLlms ==
    {DefaultOllama,
     LlmObject(1, "OpenAIModel", None, [k \in {"model"} |-> "gpt-4.1"])}

LlmInit ==
    /\ EngineInit(0)
    /\ typer_ctx = NoTyperCtx
    /\ environ \in {EmptyEnviron,
                    [name \in {"NBG_OPENAI_API_KEY"} |-> ParamValue("str", "test-api-key")]}
    /\ env_settings = EmptySettings
    /\ base_settings = EmptySettings
    /\ NoLlmCall
    /\ default_llm \in DefaultLlms
    /\ NoCommand
    /\ NoParamsLoaded
    /\ NoFanOut

\* self._get_task_llm(task_config)
GetTaskLlmCall(name, config) ==
    LET outcome == GetTaskLlm(name, config, default_llm, GetOpenaiApiKey, llm_count + 1)
        constructed == outcome.llm.id = llm_count + 1
    IN  /\ constructed => llm_count < MaxLlmObjects
        /\ llm_config' = <<name, config>>
        /\ llm' = outcome.llm
        /\ llm_warning' = outcome.warning
        /\ llm_count' = IF constructed THEN llm_count + 1 ELSE llm_count
        /\ UNCHANGED <<engine_vars, task_vars, conf_vars, handler_vars, fan_vars, call_vars, now, default_llm,
                       run_vars>>

LlmNext ==
    \E name \in {TaskName(1), TaskName(2)}, config \in LlmConfigs :
        GetTaskLlmCall(name, config)

LlmSpec == LlmInit /\ [][LlmNext]_vars

\* ------------------------------------------- the run with warnings
\* a warning that starts with NO_DATA_WARNING
HasNoDataPrefix(warning) == warning = NoDataWarning

\* the rule for results: a failure has an error, a success with a no-data
\* warning has none
ObeysResultRule(r) ==
    /\ ~r.success => r.error # NoError
    /\ (r.success /\ HasNoDataPrefix(r.warning)) => r.error = NoError

Warnings == {None, NoDataWarning}

\* results of execute() that obey the rule, with every combination of
\* success, error and warning that the rule allows; one of them without
\* metrics
RuleObeyingResults ==
    {r \in [success : BOOLEAN, data : {"payload"},
            error : {NoError} \cup {PlainError(text) : text \in TaskErrorTexts},
            metrics : MetricsValues, warning : Warnings] :
        /\ ObeysResultRule(r)
        /\ r.metrics = None => (r.success /\ r.warning = None /\ r.error = NoError)}

\* str(e) may be empty
WarnExceptionTexts == ExceptionTexts \cup {""}

WarnNext ==
    \/ ExecuteWorkflow
    \/ \E cfg \in Configs : DependenciesFailed(cfg)
    \/ \E cfg \in Configs : InstantiationFails(cfg)
    \/ \E cfg \in Configs : StartTask(cfg, <<>>)
    \/ \E r \in RuleObeyingResults :
          ExecuteReturns(r.success, r.data, r.error, r.metrics, r.warning)
    \/ \E text \in WarnExceptionTexts : ExecuteRaises(text)
    \/ ReviewRaises
    \/ \E choice \in 1..3 : Review(choice, <<>>)

WarnSpec == Init /\ [][WarnNext]_vars

\* ------------------------------------------- the `run' command
\* names of a workflow definition: entry p is named TaskName(p), or like the
\* first entry
DeclaredNames ==
    {names \in UNION {[1..m -> {TaskName(p) : p \in 1..MaxDeclared}] : m \in 0..MaxDeclared} :
        \A p \in DOMAIN names : names[p] \in {TaskName(p), TaskName(1)}}

\* the definitions with these names: any task_type and human_review, at most
\* one dependency, no llm mapping
DeclaredWorkflows(names) ==
    {d \in [DOMAIN names -> [name : {names[p] : p \in DOMAIN names},
                             task_type : TaskTypes,
                             depends_on : {S \in SUBSET DepNames : Cardinality(S) <= 1},
                             human_review : BOOLEAN]] :
        \A p \in DOMAIN names : d[p].name = names[p]}

\* has_errors of _validate_workflow after its loop over the entries; task
\* instances of registered types without llm mapping are created without error
HasErrors(entries) ==
    \E p \in DOMAIN entries :
        \/ entries[p].name \in {entries[q].name : q \in 1..(p - 1)}
        \/ entries[p].task_type \notin TASK_REGISTRY
        \/ \E dep \in entries[p].depends_on :
              dep \notin {entries[q].name : q \in 1..p}

CliInit ==
    /\ tasks \in DeclaredNames
    /\ EngineIdle
    /\ NoSettings
    /\ NoLlmCall /\ default_llm = DefaultOllama
    /\ declared \in DeclaredWorkflows(tasks)
    /\ cli = "run"
    /\ exit_code = None
    /\ NoParamsLoaded
    /\ NoFanOut

\* run: await _validate_workflow(handler, workflow_name); typer.Exit(1) ends
\* the process with status 1
ValidateWorkflow(known) ==
    /\ cli = "run"
    /\ IF ~known \/ HasErrors(declared)
       THEN cli' = "exited" /\ exit_code' = 1
       ELSE cli' = "validated" /\ UNCHANGED exit_code
    /\ UNCHANGED <<engine_vars, task_vars, conf_vars, handler_vars, fan_vars, llm_vars, call_vars, now, declared>>

\* run: _print_results(results), then the command returns
PrintResults ==
    /\ cli = "validated"
    /\ pc = "returned"
    /\ cli' = "exited"
    /\ exit_code' = 0
    /\ UNCHANGED <<engine_vars, task_vars, conf_vars, handler_vars, fan_vars, llm_vars, call_vars, now, declared>>

\* the entry of the loop, as declared
DeclaredConfigs == IF i \in DOMAIN declared THEN {declared[i]} ELSE {}

CliNext ==
    \/ \E known \in BOOLEAN : ValidateWorkflow(known)
    \/ cli = "validated" /\ ExecuteWorkflow
    \/ \E cfg \in DeclaredConfigs : DependenciesFailed(cfg)
    \/ \E cfg \in DeclaredConfigs : StartTask(cfg, <<>>)
    \/ \E r \in TimedResults :
          ExecuteReturns(r.success, r.data, r.error, r.metrics, r.warning)
    \/ \E text \in ExceptionTexts : ExecuteRaises(text)
    \/ \E choice \in 1..3 : Review(choice, <<>>)
    \/ PrintResults

CliSpec == CliInit /\ [][CliNext]_vars

\* ------------------------------------------- runs that hand data on
\* what a task may do to the top-level keys of its workflow_data: add a key
\* of its own, remove a key
TopLevelWrites(d) ==
    {Put(d, <<"scratch", 0>>, "payload")}
    \cup {[k \in DOMAIN d \ {x} |-> d[k]] : x \in DOMAIN d}

\* entries of registered types without review
DataConfigs == {cfg \in Configs : cfg.task_type = RegisteredType /\ ~cfg.human_review}

\* results with metrics whose data is a payload, None or an empty list
DataResults ==
    {[success |-> success, data |-> data,
      error |-> IF success THEN NoError ELSE PlainError(text),
      metrics |-> "task metrics", warning |-> None] :
        success \in BOOLEAN, data \in DataValues \cup {EmptyList},
        text \in TaskErrorTexts}

DataNext ==
    \/ ExecuteWorkflow
    \/ ExecuteWorkflowAgain
    \/ \E cfg \in DataConfigs : DependenciesFailed(cfg)
    \/ \E cfg \in DataConfigs : StartTask(cfg, <<>>)
    \/ \E written \in TopLevelWrites(workflow_data) : WriteWorkflowData(written)
    \/ \E r \in DataResults :
          ExecuteReturns(r.success, r.data, r.error, r.metrics, r.warning)

DataSpec == Init /\ [][DataNext]_vars

\* ------------------------------------------- two runs of a loaded workflow
\* the params of the one entry as load_workflow_config leaves them in
\* self.workflows: with a params key, or without one
LoadedDefinitions ==
    {<<LoadedEntry(TRUE, << <<"max_items", ParamValue("int", "20")>> >>)>>,
     <<LoadedEntry(FALSE, <<>>)>>}

\* what the reviewer may submit: no line or one line
OneLine == {<<>>} \cup {<<l>> : l \in Lines}

LoadedInit ==
    /\ EngineInit(1)
    /\ N = 1
    /\ NoSettings
    /\ NoLlmCall /\ default_llm = DefaultOllama
    /\ NoCommand
    /\ workflows \in LoadedDefinitions
    /\ NoFanOut

\* execute_workflow builds the TaskConfig of an entry from the loaded
\* definition, and the task instance gets the params of that TaskConfig
LoadedNext ==
    \/ ExecuteWorkflow
    \/ ExecuteWorkflowAgain
    \/ \E cfg \in ReviewConfigs : StartTask(cfg, TaskDictParams(workflows[i]))
    \/ \E name \in ParamKeys, default \in {NoneValue, ParamValue("int", "5")} :
          GetParameter(name, default)
    \/ \E r \in ReviewedResults :
          ExecuteReturns(r.success, r.data, r.error, r.metrics, r.warning)
    \/ \E choice \in 1..3, lines \in OneLine : Review(choice, lines)

LoadedSpec == LoadedInit /\ [][LoadedNext]_vars

\* ------------------------------------------- the fan-out of one task
\* A coroutine is created, scheduled by create_task, waiting for a permit,
\* running (in flight), and in the end has returned a value or raised.
Coroutine(state, value) == [state |-> state, value |-> value]

\* what a coroutine returns when its sub-operation succeeded
Completed(k) == [tag |-> "result", of |-> k]

\* what a wrapper returns for a sub-operation whose exception it caught
FailureMarker(k) == [tag |-> "failed", of |-> k]

\* the exception that escapes a coroutine
Escaped(k) == [tag |-> "exception", of |-> k]

NoneResult == [tag |-> "None", of |-> 0]

\* the tasks that hand coroutines to track_async_progress
FanOuts == {"feed_collection", "content_fetching", "article_summarization",
            "topic_summarization", "topic_title_generation"}

\* the coroutine runs its sub-operation inside `async with semaphore'
HasSemaphore(task) == task \in {"content_fetching", "article_summarization"}

\* the coroutine wraps its sub-operation in try/except Exception
CatchesExceptions(task) ==
    task \in {"feed_collection", "content_fetching", "article_summarization"}

\* Semaphore.acquire goes on without waiting
CanAcquireAlways(value) == TRUE

CanAcquire(value) == value > 0

\* how a coroutine of the task ends when its sub-operation ends with outcome
Ends(task, k, outcome) ==
    IF outcome = "ok"
    THEN Coroutine("returned", Completed(k))
    ELSE IF CatchesExceptions(task)
         THEN Coroutine("returned", FailureMarker(k))
         ELSE Coroutine("raised", Escaped(k))

Finished(c) == c.state \in {"returned", "raised"}

\* the sub-operations in flight
InFlight == {k \in DOMAIN coroutines : coroutines[k].state = "running"}

\* one element of results after `await task': the value, or None in the
\* except branch
AwaitedTaking(c) == c.value

Awaited(c) == IF c.state = "raised" THEN NoneResult ELSE c.value

\* a task has built the coroutines of its fan-out
FanInit ==
    /\ EngineInit(0)
    /\ NoSettings
    /\ NoLlmCall /\ default_llm = DefaultOllama
    /\ NoCommand
    /\ NoParamsLoaded
    /\ fan_out \in FanOuts
    /\ max_concurrent \in 1..MaxPermits
    /\ semaphore = max_concurrent
    /\ coroutines \in {[k \in 1..n |-> Coroutine("created", NoneResult)] :
                          n \in 0..MaxCoroutines}
    /\ tracking = "created"
    /\ index = 0
    /\ gathered = <<>>
    /\ overtaken = FALSE

\* track_async_progress up to its loop: create_task for every coroutine,
\* results = [None] * len(tasks)
TrackAsyncProgress ==
    /\ tracking = "created"
    /\ coroutines' = [k \in DOMAIN coroutines |-> Coroutine("scheduled", NoneResult)]
    /\ gathered' = [k \in DOMAIN coroutines |-> NoneResult]
    /\ index' = 1
    /\ tracking' = IF coroutines = <<>> THEN "returned" ELSE "awaiting"
    /\ UNCHANGED <<fan_out, max_concurrent, semaphore, overtaken>>
    /\ UNCHANGED <<engine_vars, task_vars, conf_vars, handler_vars, llm_vars, run_vars, call_vars, now>>

\* the event loop runs a scheduled coroutine up to its first wait: into its
\* sub-operation, or into the queue of the semaphore
Begin(k) ==
    /\ tracking = "awaiting"
    /\ coroutines[k].state = "scheduled"
    /\ IF HasSemaphore(fan_out)
       THEN IF CanAcquire(semaphore)
            THEN /\ coroutines' = [coroutines EXCEPT ![k].state = "running"]
                 /\ semaphore' = semaphore - 1
            ELSE /\ coroutines' = [coroutines EXCEPT ![k].state = "waiting"]
                 /\ UNCHANGED semaphore
       ELSE /\ coroutines' = [coroutines EXCEPT ![k].state = "running"]
            /\ UNCHANGED semaphore
    /\ UNCHANGED <<fan_out, max_concurrent, tracking, index, gathered, overtaken>>
    /\ UNCHANGED <<engine_vars, task_vars, conf_vars, handler_vars, llm_vars, run_vars, call_vars, now>>

\* a coroutine that waited for the semaphore gets a permit
Acquire(k) ==
    /\ tracking = "awaiting"
    /\ coroutines[k].state = "waiting"
    /\ CanAcquire(semaphore)
    /\ coroutines' = [coroutines EXCEPT ![k].state = "running"]
    /\ semaphore' = semaphore - 1
    /\ UNCHANGED <<fan_out, max_concurrent, tracking, index, gathered, overtaken>>
    /\ UNCHANGED <<engine_vars, task_vars, conf_vars, handler_vars, llm_vars, run_vars, call_vars, now>>

\* the sub-operation of a coroutine ends; leaving `async with' releases the
\* permit
End(k, outcome) ==
    /\ tracking = "awaiting"
    /\ coroutines[k].state = "running"
    /\ coroutines' = [coroutines EXCEPT ![k] = Ends(fan_out, k, outcome)]
    /\ semaphore' = IF HasSemaphore(fan_out) THEN semaphore + 1 ELSE semaphore
    /\ overtaken' = (overtaken \/ \E j \in 1..(k - 1) : ~Finished(coroutines[j]))
    /\ UNCHANGED <<fan_out, max_concurrent, tracking, index, gathered>>
    /\ UNCHANGED <<engine_vars, task_vars, conf_vars, handler_vars, llm_vars, run_vars, call_vars, now>>

\* one iteration of the loop of track_async_progress: `await task' is over,
\* results[index] is assigned, and after the last one the list is returned
AwaitTask ==
    /\ tracking = "awaiting"
    /\ Finished(coroutines[index])
    /\ gathered' = [gathered EXCEPT ![index] = Awaited(coroutines[index])]
    /\ index' = index + 1
    /\ tracking' = IF index = Len(coroutines) THEN "returned" ELSE "awaiting"
    /\ UNCHANGED <<fan_out, max_concurrent, semaphore, coroutines, overtaken>>
    /\ UNCHANGED <<engine_vars, task_vars, conf_vars, handler_vars, llm_vars, run_vars, call_vars, now>>

FanNext ==
    \/ TrackAsyncProgress
    \/ \E k \in DOMAIN coroutines : Begin(k)
    \/ \E k \in DOMAIN coroutines : Acquire(k)
    \/ \E k \in DOMAIN coroutines, outcome \in {"ok", "exception"} : End(k, outcome)
    \/ AwaitTask

FanSpec == FanInit /\ [][FanNext]_vars

\* ---------------------------------------------------------------- claims
\* positions whose task was instantiated and executed
Started == {started[k] : k \in DOMAIN started}

\* every entry declared after position idx is recorded in res as failed with
\* the error err, and was never instantiated or executed
LaterTasksSkipped(idx, res, err) ==
    \A q \in (idx + 1)..N :
        /\ tasks[q] \in DOMAIN res
        /\ res[tasks[q]].success = FALSE
        /\ res[tasks[q]].error = err
        /\ q \notin Started

\* the text 'Skipped due to failure of <name>'
SkipTextFor(name) ==
    [msg |-> "Skipped due to failure of ", name |-> name, deps |-> {}]

\* a text with nothing formatted into it
FixedText(text) == [msg |-> text, name |-> Undeclared, deps |-> {}]

\* C1: a task's execute() is invoked (first execution or re-run) only while
\* every name of its depends_on is a key of results with success=True.
C1_DependenciesMetWhenExecuting ==
    pc = "execute" =>
        \A dep \in task_config.depends_on :
            dep \in DOMAIN results /\ results[dep].success

C1_Witness ==
    /\ pc = "execute"
    /\ Cardinality(task_config.depends_on) = 2
    /\ reruns = 1

\* C2: tasks run one at a time in declared order: the tasks started are the
\* positions 1, 2, 3, ... without a gap, and while a task is executing or
\* under review it is the last one started, all earlier ones have their
\* result recorded and it has none yet.
C2_StrictlySequential ==
    /\ \A k \in DOMAIN started : started[k] = k
    /\ pc \in {"execute", "review"} =>
        /\ Len(started) = i
        /\ tasks[i] \notin DOMAIN results
        /\ \A q \in 1..(i - 1) : tasks[q] \in DOMAIN results

C2_Witness ==
    /\ pc = "execute"
    /\ i = 3
    /\ reruns = 2

\* C3: when the result that _execute_task returned for the task at position i
\* has success=False, results keeps exactly that result for the task, and
\* every later task is recorded as failed with 'Skipped due to failure of
\* <name of the failed task>' and was never executed.
C3_FailureKeepsErrorAndSkipsRest ==
    (pc = "returned" /\ i \in DOMAIN tasks /\ result.task_name = tasks[i]
        /\ ~result.success) =>
        /\ tasks[i] \in DOMAIN results
        /\ results[tasks[i]] = result
        /\ LaterTasksSkipped(i, results, SkipTextFor(tasks[i]))

C3_Witness ==
    /\ pc = "returned"
    /\ N = 3
    /\ i = 1
    /\ result.error = FixedText("Task configured to fail")
    /\ tasks[1] \in DOMAIN results
    /\ results[tasks[1]] = result

\* C4: when the loop reaches a task one of whose dependencies is no key of
\* results, the call does not raise but returns: the task gets a failed result
\* whose error lists '<dependency> (not executed)' for each such dependency,
\* every later task is recorded as failed with 'Skipped due to workflow
\* failure: dependency chain broken', and no task is started.
C4_UnmetDependencyHaltsRun ==
    [][(/\ pc = "loop"
        /\ i \in DOMAIN tasks
        /\ task_config'.name = tasks[i]
        /\ task_config'.depends_on \ DOMAIN results # {})
       => (/\ pc' = "returned"
           /\ tasks[i] \in DOMAIN results'
           /\ results'[tasks[i]].success = FALSE
           /\ results'[tasks[i]].error.msg = "Dependencies failed for "
           /\ results'[tasks[i]].error.name = tasks[i]
           /\ \A dep \in task_config'.depends_on \ DOMAIN results :
                  [dep |-> dep, why |-> "not executed", reason |-> NoError]
                      \in results'[tasks[i]].error.deps
           /\ LaterTasksSkipped(i, results',
                  FixedText("Skipped due to workflow failure: dependency chain broken"))
           /\ started' = started)]_vars

C4_Witness ==
    /\ pc = "returned"
    /\ N = 3
    /\ i = 2
    /\ tasks[2] \in DOMAIN results
    /\ results[tasks[2]].error.deps = {NotExecuted(Undeclared), NotExecuted(tasks[3])}

\* C5: once results holds a failed entry, no task is instantiated or executed
\* any more; and a task is instantiated only if all its dependencies are met.
C5_NothingStartsAfterFailure ==
    [][(/\ (\E n \in DOMAIN results : ~results[n].success)
           => (started' = started /\ pc' \notin {"loop", "execute", "review"})
        /\ started' # started
           => \A dep \in task_config'.depends_on :
                  dep \in DOMAIN results /\ results[dep].success)]_vars

C5_Witness ==
    /\ pc = "returned"
    /\ N = 3
    /\ started = <<1, 2>>
    /\ review_result = "rejected"

\* C6: for a workflow with unique task names, the returned map has exactly
\* one entry per declared task and no other key, whatever the outcome; the
\* tasks that never ran are failed entries, those after the task that stopped
\* the run are skip entries.
C6_OneEntryPerDeclaredTask ==
    (pc = "returned" /\ \A p, q \in DOMAIN tasks : tasks[p] = tasks[q] => p = q) =>
        /\ DOMAIN results = {tasks[p] : p \in DOMAIN tasks}
        /\ Cardinality(DOMAIN results) = N
        /\ \A p \in DOMAIN tasks :
            /\ p \notin Started => results[tasks[p]].success = FALSE
            /\ p > i => results[tasks[p]].metrics = "skipped_due_to_workflow_failure"

C6_Witness ==
    /\ pc = "returned"
    /\ N = 3
    /\ started = <<1>>
    /\ tasks[2] \in DOMAIN results
    /\ results[tasks[2]].metrics = "dependency_failures"
    /\ tasks[3] \in DOMAIN results

\* C7: if execute() raises (first execution or re-run), the call returns: the
\* task's recorded result has success=False and the exception's text as its
\* error, and the later tasks are recorded as skipped.
C7_ExceptionBecomesFailure ==
    execute_raised # None =>
        /\ pc = "returned"
        /\ i \in DOMAIN tasks
        /\ tasks[i] \in DOMAIN results
        /\ results[tasks[i]].success = FALSE
        /\ results[tasks[i]].error = FixedText(execute_raised)
        /\ LaterTasksSkipped(i, results, SkipTextFor(tasks[i]))

C7_Witness ==
    /\ execute_raised = "boom"
    /\ reruns = 1
    /\ i = 2
    /\ N = 3

\* the loop has reached an entry whose task_type is no key of the registry,
\* and the entry's dependency check passed
UnknownTypeReached ==
    /\ i \in DOMAIN tasks
    /\ task_config.name = tasks[i]
    /\ task_config.task_type \notin TASK_REGISTRY
    /\ ~(/\ tasks[i] \in DOMAIN results
         /\ results[tasks[i]].error.msg = "Dependencies failed for ")

\* C8 as stated: an unknown task_type makes execute_workflow raise, and no
\* result is recorded for the task.
C8_UnknownTypeRaises ==
    UnknownTypeReached => (pc = "raised" /\ tasks[i] \notin DOMAIN results)

\* C8, amended: the ValueError of _get_task_instance for an unknown task_type
\* is caught by _execute_task: the call returns, the task is recorded as
\* failed with error 'Unknown task class: <task_type>' without having been
\* executed, and the later tasks are recorded as skipped.
C8_UnknownTypeRecordedAsFailure ==
    UnknownTypeReached =>
        /\ pc = "returned"
        /\ tasks[i] \in DOMAIN results
        /\ results[tasks[i]].success = FALSE
        /\ results[tasks[i]].error = FixedText("Unknown task class: NoSuchTask")
        /\ i \notin Started
        /\ LaterTasksSkipped(i, results, SkipTextFor(tasks[i]))

C8_Witness ==
    /\ UnknownTypeReached
    /\ pc = "returned"
    /\ i = 2
    /\ N = 3

\* C9: get_user_review is entered only for a task with human_review=True
\* whose execute() just returned success=True; a failed result returned by
\* execute() (first execution or re-run) goes to no review and is recorded
\* unchanged.
C9_ReviewOnlyAfterSuccess ==
    /\ [](pc = "review" => (task_config.human_review /\ result.success))
    /\ [][(pc = "execute" /\ execute_raised' = None /\ ~result'.success)
          => (/\ pc' = "returned"
              /\ review_result' = review_result
              /\ task_config.name \in DOMAIN results'
              /\ results'[task_config.name] = result')]_vars

C9_Witness ==
    /\ pc = "returned"
    /\ task_config.human_review
    /\ reruns = 1
    /\ result.error = FixedText("Task configured to fail")
    /\ task_config.name \in DOMAIN results
    /\ results[task_config.name] = result

\* C10: after the reviewer's rejection the task's recorded result has
\* success=False and error 'Rejected by human review', its data is not in the
\* context handed to later tasks, and every later task is recorded as skipped.
C10_RejectionRecorded ==
    review_result = "rejected" =>
        /\ pc = "returned"
        /\ i \in DOMAIN tasks
        /\ tasks[i] \in DOMAIN results
        /\ results[tasks[i]].success = FALSE
        /\ results[tasks[i]].error = FixedText("Rejected by human review")
        /\ tasks[i] \notin DOMAIN context
        /\ LaterTasksSkipped(i, results, SkipTextFor(tasks[i]))

C10_Witness ==
    /\ review_result = "rejected"
    /\ N = 3
    /\ i = 2
    /\ tasks[2] \in DOMAIN results
    /\ results[tasks[2]].data = "payload"
    /\ DOMAIN context = {tasks[1]}

\* C11 as stated: the recorded result of a task carries the error 'Rejected
\* by human review' only if the option last selected in its review prompt was
\* 3 (Reject); options 1 (Approve) and 2 (Re-run) never produce it.
C11_RejectedOnlyByRejectOption ==
    \A name \in DOMAIN results :
        (name = task_config.name
            /\ results[name].error = FixedText("Rejected by human review"))
        => chosen = 3

\* C12 as stated: every "re-run" signal is followed by one more execute() of
\* the same task, the result of that execute() goes to the reviewer again,
\* and the review loop is left only by the reviewer's approval or rejection.
C12_RerunAlwaysReviewedAgain ==
    [][/\ (pc = "review" /\ result.metrics # None /\ review_result' = "re-run")
          => (pc' = "execute" /\ i' = i /\ task_config' = task_config)
       /\ (pc = "execute" /\ reruns > 0 /\ execute_raised' = None)
          => pc' = "review"
       /\ (pc \in {"execute", "review"} /\ reruns > 0
             /\ pc' \notin {"execute", "review"})
          => (pc = "review" /\ review_result' \in {"accepted", "rejected"})]_vars

\* C12, amended: every "re-run" signal is followed by one more execute() of
\* the same task instance and changes no recorded result; a successful result
\* of that execute() goes to the reviewer again; and the review loop is left
\* only by the signal "accepted" or "rejected", by a re-run whose execute()
\* returns success=False or raises, or by get_user_review raising.
C12_RerunLoop ==
    [][/\ (pc = "review" /\ result.metrics # None /\ review_result' = "re-run")
          => (/\ pc' = "execute"
              /\ i' = i
              /\ task_config' = task_config
              /\ started' = started
              /\ results' = results
              /\ reruns' = reruns + 1)
       /\ (pc = "execute" /\ reruns > 0 /\ result'.success)
          => (pc' = "review" /\ results' = results /\ started' = started)
       /\ (pc = "execute" /\ reruns > 0 /\ pc' # "review")
          => (pc' = "returned" /\ ~result'.success
              /\ results'[task_config.name] = result')
       /\ (pc = "review" /\ pc' # "execute")
          => \/ review_result' \in {"accepted", "rejected"} /\ result.metrics # None
             \/ /\ result.metrics = None
                /\ result'.error = FixedText("'NoneType' object has no attribute 'items'")
                /\ review_result' = review_result]_vars

C12_Witness ==
    /\ pc = "review"
    /\ reruns = 2
    /\ i = 2
    /\ result.success
    /\ review_result = "re-run"

\* C13 as stated: when the reviewer selects option 2 (Re-run) and submits no
\* override line, the task's workflow parameter map stays as it was and the
\* task is executed again with the same workflow_data, whatever the parameter
\* map and the table of resolved parameters are at that time.
C13_RerunWithoutOverridesReexecutes ==
    [][(pc = "review" /\ result.metrics # None /\ chosen' = 2 /\ typed' = <<>>)
       => (/\ params' = params
           /\ workflow_data' = workflow_data
           /\ pc' = "execute")]_vars

\* what each tier of the last get_param call holds for the key
CliArgOf(key) ==
    IF typer_ctx.present /\ CliArg(key) \in DOMAIN typer_ctx.params
    THEN <<typer_ctx.params[CliArg(key)]>>
    ELSE IF typer_ctx.present /\ ShortArg(key) \in DOMAIN typer_ctx.params
         THEN <<typer_ctx.params[ShortArg(key)]>>
         ELSE <<>>

\* the entry of a mapping under a path, unless missing or null
EntryOf(mapping, path) ==
    IF path \in DOMAIN mapping /\ mapping[path] # NoneValue
    THEN <<mapping[path]>>
    ELSE <<>>

\* a settings tier: the entry under <scope>.<key> if a scope is given and
\* the entry exists, else the entry under the key
SettingsEntryOf(mapping, key, scope) ==
    IF scope # None /\ EntryOf(mapping, <<scope, key>>) # <<>>
    THEN EntryOf(mapping, <<scope, key>>)
    ELSE EntryOf(mapping, <<key>>)

EnvVarOf(key) == IF EnvVar(key) \in DOMAIN environ THEN <<environ[EnvVar(key)]>> ELSE <<>>

\* the tiers in precedence order, each with its tag and its match (<<>> if
\* the tier has none) for the call
Tiers(call) ==
    << <<"CLI_ARGUMENT",
         IF CliArgOf(call.key) = <<>> THEN <<>>
         ELSE <<ParamValue("str", CliArgOf(call.key)[1].v)>> >>,
       <<"WORKFLOW", EntryOf(call.workflow_params, <<call.key>>)>>,
       <<"ENVIRONMENT_VARIABLE", EnvVarOf(call.key)>>,
       <<"ENVIRONMENT_SETTINGS",
         SettingsEntryOf(env_settings, call.key, call.task_scope)>>,
       <<"BASE_SETTINGS", SettingsEntryOf(base_settings, call.key, call.task_scope)>>,
       <<"DEFAULT", <<call.default>> >> >>

\* C14: get_param returns the value of the highest-precedence tier that has
\* a match for the key, in the order CLI argument > workflow parameters >
\* environment variable > environment settings > base settings > default,
\* with exactly that tier's source tag; no lower tier overrides a higher
\* match. (The CLI tier's value is the argument as a string.)
C14_HighestTierWins ==
    asked # NoCall =>
        \E t \in 1..6 :
            /\ Tiers(asked)[t][2] # <<>>
            /\ \A h \in 1..(t - 1) : Tiers(asked)[h][2] = <<>>
            /\ parameter = Parameter(Tiers(asked)[t][2][1], Tiers(asked)[t][1])

\* a call for a key that the workflow parameters, the environment, both
\* settings files and the caller's default all define
C14_Witness ==
    /\ asked # NoCall
    /\ Cardinality({t \in 1..6 : Tiers(asked)[t][2] # <<>>}) = 5
    /\ CliArgOf(asked.key) = <<>>
    /\ parameter = Parameter(ParamValue("str", "workflow_value"), "WORKFLOW")

\* C15: with a task scope, the scoped key is tried before the plain key
\* inside one tier only: an environment-settings or base-settings mapping
\* that holds both forms yields the scoped value when that tier decides, and
\* a plain-key match in a higher tier wins over a scoped match in a lower
\* tier.
C15_ScopedFirstWithinTier ==
    (asked # NoCall /\ asked.task_scope # None) =>
        LET key == asked.key
            scope == asked.task_scope
            Both(mapping) ==
                EntryOf(mapping, <<scope, key>>) # <<>> /\ EntryOf(mapping, <<key>>) # <<>>
        IN  /\ (parameter.source = "ENVIRONMENT_SETTINGS" /\ Both(env_settings))
               => parameter.value = env_settings[<<scope, key>>]
            /\ (parameter.source = "BASE_SETTINGS" /\ Both(base_settings))
               => parameter.value = base_settings[<<scope, key>>]
            /\ (EntryOf(env_settings, <<key>>) # <<>>
                  /\ EntryOf(base_settings, <<scope, key>>) # <<>>)
               => parameter.source # "BASE_SETTINGS"
            /\ (EntryOf(asked.workflow_params, <<key>>) # <<>>
                  /\ (\/ EntryOf(env_settings, <<scope, key>>) # <<>>
                      \/ EntryOf(base_settings, <<scope, key>>) # <<>>))
               => parameter.source \in {"CLI_ARGUMENT", "WORKFLOW"}

\* the environment settings hold both forms and decide the call, while the
\* base settings hold a scoped entry too
C15_Witness ==
    /\ asked # NoCall
    /\ asked.task_scope = TaskScope
    /\ EntryOf(env_settings, <<TaskScope, asked.key>>) # <<>>
    /\ EntryOf(env_settings, <<asked.key>>) # <<>>
    /\ EntryOf(base_settings, <<TaskScope, asked.key>>) # <<>>
    /\ parameter = Parameter(ParamValue("str", "env_scoped_value"), "ENVIRONMENT_SETTINGS")

\* C16 as stated: in the workflow tier, with a task scope, get_param looks
\* up <scope>.<key> in the workflow parameter map first and returns that
\* value tagged WORKFLOW in preference to the plain key; a value defined only
\* under the scoped form is found.
C16_WorkflowTierScopedFirst ==
    (/\ asked # NoCall
     /\ asked.task_scope # None
     /\ CliArgOf(asked.key) = <<>>
     /\ EntryOf(asked.workflow_params, <<asked.task_scope, asked.key>>) # <<>>)
    => parameter = Parameter(asked.workflow_params[<<asked.task_scope, asked.key>>],
                             "WORKFLOW")

\* C16, amended: the workflow tier looks up the plain key only, with or
\* without a task scope: when no CLI argument matches, the call is decided
\* by the workflow tier exactly if the map has a non-null entry under the
\* plain key, and then returns that entry; an entry under <scope>.<key> is
\* never returned by this tier.
C16_WorkflowTierPlainKeyOnly ==
    (asked # NoCall /\ CliArgOf(asked.key) = <<>>) =>
        /\ parameter.source = "WORKFLOW"
           <=> EntryOf(asked.workflow_params, <<asked.key>>) # <<>>
        /\ parameter.source = "WORKFLOW"
           => parameter.value = asked.workflow_params[<<asked.key>>]

\* a scoped call whose workflow parameter map defines the key only under
\* the scoped form: the value comes from a lower tier
C16_Witness ==
    /\ asked # NoCall
    /\ asked.task_scope = TaskScope
    /\ CliArgOf(asked.key) = <<>>
    /\ EntryOf(asked.workflow_params, <<TaskScope, asked.key>>) # <<>>
    /\ EntryOf(asked.workflow_params, <<asked.key>>) = <<>>
    /\ parameter.source = "BASE_SETTINGS"

\* C17: in a run whose tasks all succeed, with every dependency declared
\* earlier in the list, there is one successful result per task and for every
\* dependency edge d -> t the created_at string of d's result is at or before
\* the created_at string of t's result. The edges of a task are checked while
\* its entry is the current one; recorded results of earlier tasks never
\* change afterwards.
C17_CreatedAtFollowsDependencies ==
    /\ \A name \in DOMAIN results :
          (name = task_config.name /\ results[name].success)
          => \A dep \in task_config.depends_on :
                /\ dep \in DOMAIN results
                /\ results[dep].success
                /\ StrLessEq(results[dep].created_at, results[name].created_at)
    /\ (pc = "returned" /\ \A name \in DOMAIN results : results[name].success)
       => DOMAIN results = {tasks[p] : p \in DOMAIN tasks}

\* a chain of three successful tasks whose results were created on both
\* sides of midnight
C17_Witness ==
    /\ pc = "returned"
    /\ N = 3
    /\ \A name \in DOMAIN results : results[name].success
    /\ task_config.name = TaskName(3)
    /\ task_config.depends_on = {TaskName(2)}
    /\ results[TaskName(1)].created_at = UtcNowFormatted(1)
    /\ results[TaskName(2)].created_at = UtcNowFormatted(3)
    /\ results[TaskName(3)].created_at = UtcNowFormatted(4)

\* C18: _get_task_llm returns the handler's default LLM itself (the same
\* object, not an equal copy) when the task config has no llm_config, and
\* also when llm_config names a type other than "ollama" and "openai"; in
\* the second case it logs a warning that names the type and the task, in
\* the first it logs none.
C18_DefaultLlmItself ==
    llm_config # <<>> =>
        LET name == llm_config[1]
            config == llm_config[2]
            llm_type == Get(config.config, "type")
        IN  /\ (~config.present \/ DOMAIN config.config = {})
               => (llm = default_llm /\ llm_warning = NoWarning)
            /\ (config.present /\ DOMAIN config.config # {}
                  /\ llm_type \notin {"ollama", "openai"})
               => (llm = default_llm
                   /\ llm_warning = UnknownLlmTypeWarning(llm_type, name))

\* after the handler has built an LLM of its own for one task, a task with
\* an unknown type gets the default LLM
C18_Witness ==
    /\ llm_config = <<TaskName(2), LlmConfig([k \in {"type"} |-> "unknown_llm_type"])>>
    /\ llm_count > 1
    /\ llm.id = 1
    /\ llm = default_llm
    /\ llm_warning.llm_type = "unknown_llm_type"

\* C19: if every result returned by a task's execute() has an error when
\* success=False and no error when success=True with a NO_DATA_WARNING
\* warning, then so has every TaskResult in the map of execute_workflow,
\* the ones the engine builds or edits included (dependency failure, skip
\* entries, converted exceptions, human rejection). An error is set when it
\* is not None.
C19_ResultsObeyRule ==
    \A name \in DOMAIN results : ObeysResultRule(results[name])

\* a finished run: the first task's no-data result was accepted as it was,
\* the second task's no-data result was rejected by the reviewer, the third
\* task was skipped
C19_Witness ==
    /\ pc = "returned"
    /\ N = 3
    /\ DOMAIN results = {TaskName(1), TaskName(2), TaskName(3)}
    /\ results[TaskName(1)].success
    /\ results[TaskName(1)].warning = NoDataWarning
    /\ results[TaskName(2)].warning = NoDataWarning
    /\ results[TaskName(2)].error = RejectedError
    /\ ~results[TaskName(3)].success
    /\ results[TaskName(3)].warning = None

\* C20 as stated: the run command exits with a non-zero status whenever the
\* validation of the workflow fails (the handler never starts) or a task
\* result of the executed workflow has success=False.
C20_RunExitsNonZeroOnFailure ==
    cli = "exited" =>
        ((pc # "returned" \/ \E name \in DOMAIN results : ~results[name].success)
         => exit_code # 0)

\* C21 as stated: when a task starts, its workflow_data has exactly one key
\* for each task that completed successfully earlier in the same run, mapped
\* to that task's result.data, or to an empty mapping when data is None;
\* nothing else, whatever earlier tasks did to the top-level keys of their own
\* workflow_data.
C21_WorkflowDataIsResultData ==
    [][(pc = "loop" /\ pc' = "execute")
       => workflow_data' =
             [name \in {n \in DOMAIN results : results[n].success} |->
                 IF results[name].data = None THEN EmptyMapping
                 ELSE results[name].data]]_vars

\* C21, amended: as above, with an empty mapping in place of every data
\* that is false in a condition (None, an empty list), not of None only.
C21_WorkflowDataIsResultDataOrEmpty ==
    [][(pc = "loop" /\ pc' = "execute")
       => workflow_data' =
             [name \in {n \in DOMAIN results : results[n].success} |->
                 IF results[name].data \in {None, "[]", "{}"} THEN "{}"
                 ELSE results[name].data]]_vars

\* in a second run, the third task executes with the data of the first two,
\* one of which returned an empty list
C21_Witness ==
    /\ runs = 1
    /\ pc = "execute"
    /\ i = 3
    /\ results[TaskName(1)].data = EmptyList
    /\ results[TaskName(2)].data = "payload"
    /\ workflow_data = Put(Put(EmptyDict, TaskName(1), EmptyMapping), TaskName(2), "payload")

\* the entry of a dict under a key, <<>> if it has none
ItemOf(d, k) == IF k \in DictKeys(d) THEN <<DictGet(d, k)>> ELSE <<>>

\* positions of the lines that the prompt accepts: well-formed, for a key
\* with an entry in the table of resolved parameters, with a text that
\* converts to the type of the resolved value
AcceptedLines(lines, sources) ==
    {j \in DOMAIN lines :
        /\ lines[j].wellformed
        /\ lines[j].key \in DOMAIN sources
        /\ SafeConvertValue(lines[j].text, sources[lines[j].key].value.type)
              # ConversionError}

\* in the step of a re-run prompt: every key with an accepted line has the
\* value of its last accepted line in the workflow parameter map, and its
\* param_sources entry holds that value tagged WORKFLOW
OverridesWritten ==
    \A j \in AcceptedLines(typed', param_sources) :
        LET k == typed'[j].key
            last == CHOOSE m \in AcceptedLines(typed', param_sources) :
                       /\ typed'[m].key = k
                       /\ \A n \in AcceptedLines(typed', param_sources) :
                             typed'[n].key = k => n <= m
            value == SafeConvertValue(typed'[last].text, param_sources[k].value.type)
        IN  /\ ItemOf(params', k) = <<value>>
            /\ param_sources'[k] = Parameter(value, "WORKFLOW")

\* lines for a key without an entry in param_sources change neither the
\* workflow parameter map nor param_sources
UnresolvedKeysUntouched ==
    \A k \in ParamKeys \ DOMAIN param_sources :
        /\ k \notin DOMAIN param_sources'
        /\ ItemOf(params', k) = ItemOf(params, k)

\* C22 as stated: in a re-run prompt a line is accepted only for a key that
\* has an entry in param_sources; a line for another key changes nothing;
\* and every accepted override is written to the workflow parameter map,
\* with its param_sources entry tagged WORKFLOW, and "re-run" is signalled.
C22_AcceptedOverridesWritten ==
    [][(pc = "review" /\ result.metrics # None /\ chosen' = 2)
       => /\ UnresolvedKeysUntouched
          /\ AcceptedLines(typed', param_sources) # {}
             => (OverridesWritten /\ review_result' = "re-run")]_vars

\* what holds of the prompt in every case: unresolved keys stay untouched,
\* and whenever "re-run" is signalled the accepted overrides are written
OverridesWrittenBeforeRerun ==
    [][(pc = "review" /\ result.metrics # None /\ chosen' = 2)
       => /\ UnresolvedKeysUntouched
          /\ review_result' = "re-run" => OverridesWritten]_vars

\* keys whose entry in the workflow parameter map is the converted text of
\* a line typed in the last re-run prompt
OverriddenKeys ==
    {k \in DictKeys(params) :
        \E j \in DOMAIN typed :
            /\ typed[j].wellformed
            /\ typed[j].key = k
            /\ SafeConvertValue(typed[j].text, DictGet(params, k).type) = DictGet(params, k)}

\* C23 as stated: after an override k=v was accepted in a re-run prompt, the
\* re-executed task's get_parameter(k) returns v, whatever the CLI
\* arguments, environment variables, settings files or the default define
\* for k.
C23_OverrideBeatsAllSources ==
    [][(/\ pc = "execute" /\ pc' = "execute"
        /\ review_result = "re-run"
        /\ asked'.key \in OverriddenKeys)
       => parameter'.value = DictGet(params, asked'.key)]_vars

\* what holds in every case: the override is returned unless a CLI argument
\* matches the key
OverrideBeatsLowerSources ==
    [][(/\ pc = "execute" /\ pc' = "execute"
        /\ review_result = "re-run"
        /\ asked'.key \in OverriddenKeys
        /\ CliArgOf(asked'.key) = <<>>)
       => /\ parameter'.value = DictGet(params, asked'.key)
          /\ parameter'.source = "WORKFLOW"]_vars

\* C24: a get_parameter call of the executing task returns the value that
\* get_param resolves for the key with the task's workflow parameters, its
\* name as the scope and the given default; afterwards param_sources[key]
\* holds that value with its source in place of any earlier entry, every
\* other entry of param_sources is as before, and the workflow parameters
\* are not modified
C24_GetParameterTracksOneEntry ==
    [][(pc = "execute" /\ pc' = "execute")
       => /\ parameter' = GetParam(asked'.key, AsMapping(params), TaskScope,
                                   asked'.default)
          /\ DOMAIN param_sources' = (DOMAIN param_sources) \cup {asked'.key}
          /\ param_sources'[asked'.key] = Parameter(parameter'.value, parameter'.source)
          /\ \A k \in (DOMAIN param_sources) \ {asked'.key} :
                 param_sources'[k] = param_sources[k]
          /\ params' = params]_vars

\* after an accepted override of max_items, which left the entry tagged
\* WORKFLOW, the re-executed task has asked for max_items again and the entry
\* now holds the value and source of that call; the entry of model stays
C24_Witness ==
    /\ pc = "execute"
    /\ review_result = "re-run"
    /\ asked.key = "max_items"
    /\ "max_items" \in OverriddenKeys
    /\ DOMAIN param_sources = {"max_items", "model"}
    /\ param_sources["max_items"] = Parameter(parameter.value, parameter.source)
    /\ param_sources["max_items"].source = "CLI_ARGUMENT"
    /\ param_sources["model"].source = "DEFAULT"

\* C25: track_async_progress has scheduled every coroutine it was given
\* before it awaits the first one, and the list it returns has the length of
\* its input and holds at position k what coroutine k returned, or None if
\* coroutine k raised, whatever the order in which the coroutines finished;
\* every coroutine has run to its end by then, whichever of the others raised
C25_ResultsInInputOrder ==
    /\ tracking \in {"awaiting", "returned"}
          => \A k \in DOMAIN coroutines : coroutines[k].state # "created"
    /\ tracking = "returned"
          => /\ Len(gathered) = Len(coroutines)
             /\ \A k \in DOMAIN coroutines :
                    /\ Finished(coroutines[k])
                    /\ gathered[k] = IF coroutines[k].state = "raised"
                                     THEN NoneResult
                                     ELSE coroutines[k].value

\* three coroutines of which the first raised and finished after a later
\* one: the list returned holds None, then the results of the second and
\* the third
C25_Witness ==
    /\ tracking = "returned"
    /\ overtaken
    /\ Len(coroutines) = 3
    /\ coroutines[1].state = "raised"
    /\ gathered = <<NoneResult, Completed(2), Completed(3)>>

\* C26 as stated: in the fan-out of every task the sub-operations in flight
\* are never more than the permits of the task's pool
C26_InFlightWithinPool == Cardinality(InFlight) <= max_concurrent

\* C26: in the fan-out of content fetching and of article summarization,
\* whose coroutines run inside the task's semaphore, the sub-operations in
\* flight are never more than max_concurrent: each holds one permit of the
\* semaphore. (Feed fetching, topic summarization and title generation
\* use no semaphore.)
C26_InFlightWithinSemaphore ==
    HasSemaphore(fan_out)
        => /\ semaphore >= 0
           /\ Cardinality(InFlight) + semaphore = max_concurrent

\* article summarization with more coroutines than permits: every permit
\* is held and a coroutine waits
C26_Witness ==
    /\ fan_out = "article_summarization"
    /\ Cardinality(InFlight) = max_concurrent
    /\ semaphore = 0
    /\ \E k \in DOMAIN coroutines : coroutines[k].state = "waiting"

\* C27: whenever execute_workflow is at the dependency check of a task,
\* every result already in results has success=True; hence every entry that
\* a dependency failure lists is '<dependency> (not executed)', never
\* '<dependency> (failed: <reason>)'
C27_OnlySuccessesAtDependencyCheck ==
    /\ pc = "loop" => \A name \in DOMAIN results : results[name].success
    /\ \A name \in DOMAIN results :
          \A failed_dep \in results[name].error.deps : failed_dep.why = "not executed"

\* the second task, checked after the first one succeeded, depends on the
\* third one, which has not run: that is the one entry its error lists
C27_Witness ==
    /\ pc = "returned"
    /\ N = 3
    /\ i = 2
    /\ tasks[1] \in DOMAIN results /\ results[tasks[1]].success
    /\ tasks[2] \in DOMAIN results
    /\ results[tasks[2]].error = DependenciesFailedError(tasks[2], {NotExecuted(tasks[3])})

\* C28: execute_workflow leaves the loaded workflow definitions as they are,
\* so that a later execute_workflow call starts its task with the params
\* that load_workflow_config read, whatever override a reviewer typed in an
\* earlier run
C28_LoadedDefinitionsUnchanged ==
    [][/\ workflows' = workflows
       /\ (pc = "loop" /\ pc' = "execute" /\ runs >= 1)
             => <<LoadedEntry(params' # <<>>, params')>> \in LoadedDefinitions]_vars

\* C29: when applying the updates of a re-run prompt fails, so that
\* get_user_review answers option 2 with "rejected", the task's workflow
\* parameters and its param_sources are as they were before the prompt
C29_FailedUpdateLeavesNoTrace ==
    [][(pc = "review" /\ chosen' = 2 /\ review_result' = "rejected")
       => (params' = params /\ param_sources' = param_sources)]_vars

\* C30: an execute_workflow call for a loaded workflow eventually returns
\* its results map, when every execute() call ends and the reviewer asks for
\* a bounded number of re-runs; the number of re-runs of a task has no bound
\* other than the reviewer's
C30_KnownWorkflowReturns == (pc \notin {"idle", "raised"}) ~> (pc = "returned")

\* a run of the longest workflow has returned after its last task was
\* re-run as often as the reviewer asked and then approved
C30_Witness ==
    /\ pc = "returned"
    /\ N = MaxFairTasks
    /\ i = N + 1
    /\ reruns = MaxReruns
    /\ review_result = "accepted"

====
